---- MODULE Spec2Model ----
(***************************************************************************)
(* Model of scraper.py: one invocation of main(), which polls the booking  *)
(* API for each date, renews the session on an auth failure, aggregates    *)
(* the filtered slots, notifies and disables further scraping.             *)
(*                                                                         *)
(* Every network call is one action; its outcome (response or exception)   *)
(* is chosen nondeterministically.  Input domain: TIME_INTERVAL_* are      *)
(* well-formed HH:MM values and every slot of a JSON object body carries   *)
(* "time" and "is_available".                                              *)
(***************************************************************************)
EXTENDS Integers, Sequences, FiniteSets, TLC

\* ---- bounds of the model ----
\* longest date list (explicit or by day-count) a run iterates over
MaxDays == 2

\* ---- time arithmetic (datetime) ----
DaySeconds == 86400

IsLeap(y) == (y % 4 = 0 /\ y % 100 # 0) \/ y % 400 = 0

DaysInMonth(y, m) ==
    IF m = 2 THEN (IF IsLeap(y) THEN 29 ELSE 28)
    ELSE IF m \in {4, 6, 9, 11} THEN 30 ELSE 31

\* number of days from 1970-01-01 to the civil date y-m-d
days_from_civil(y, m, d) ==
    LET yy  == IF m <= 2 THEN y - 1 ELSE y
        era == yy \div 400
        yoe == yy - era * 400
        mp  == IF m > 2 THEN m - 3 ELSE m + 9
        doy == (153 * mp + 2) \div 5 + d - 1
        doe == yoe * 365 + yoe \div 4 - yoe \div 100 + doy
    IN  era * 146097 + doe - 719468

\* civil date <<y, m, d>> of the day number z (days since 1970-01-01)
civil_from_days(z) ==
    LET zz  == z + 719468
        era == zz \div 146097
        doe == zz - era * 146097
        yoe == (doe - doe \div 1460 + doe \div 36524 - doe \div 146096) \div 365
        doy == doe - (365 * yoe + yoe \div 4 - yoe \div 100)
        mp  == (5 * doy + 2) \div 153
        d   == doy - (153 * mp + 2) \div 5 + 1
        m   == IF mp < 10 THEN mp + 3 ELSE mp - 9
        y   == yoe + era * 400 + (IF m <= 2 THEN 1 ELSE 0)
    IN  <<y, m, d>>

\* datetime.fromtimestamp(ts, UTC).strftime("%Y-%m-%d"): the label is the
\* civil date of the UTC day that contains ts
date_label(ts) == civil_from_days(ts \div DaySeconds)

\* datetime.fromtimestamp(ts, UTC).time(), as seconds since midnight
time_of_day(ts) == ts % DaySeconds

\* datetime.fromtimestamp(ts, UTC).strftime("%H:%M")
hhmm(ts) == <<time_of_day(ts) \div 3600, (time_of_day(ts) % 3600) \div 60>>

\* parse_time_str: 'HH:MM' (here <<h, m>>) to a time object (seconds)
parse_time_str(time_str) == time_str[1] * 3600 + time_str[2] * 60

\* datetime.strptime(s, "%Y-%m-%d") succeeds: the text has the shape
\* digits-digits-digits and names a day of the calendar
strptime_ok(e) ==
    /\ e.fmt
    /\ e.y \in 1..9999
    /\ e.m \in 1..12
    /\ e.d \in 1..DaysInMonth(e.y, e.m)

\* naive datetime.timestamp(): the wall-clock midnight of the host's zone,
\* whose offset east of UTC is tzoff seconds
naive_timestamp(e, tzoff) == days_from_civil(e.y, e.m, e.d) * DaySeconds - tzoff

\* the time of day is not cleared
utc_now_unrounded(t) == t

\* datetime.now(UTC).replace(hour=0, minute=0, second=0, microsecond=0)
utc_midnight(t) == (t \div DaySeconds) * DaySeconds

\* ---- int(str) ----
Digits == <<"0", "1", "2", "3", "4", "5", "6", "7", "8", "9">>

IsDigit(c) == \E i \in 1..10 : Digits[i] = c

DigitVal(c) == (CHOOSE i \in 1..10 : Digits[i] = c) - 1

RECURSIVE DigitsVal(_)
DigitsVal(s) ==
    IF s = <<>> THEN 0
    ELSE DigitsVal(SubSeq(s, 1, Len(s) - 1)) * 10 + DigitVal(s[Len(s)])

\* text without surrounding blanks (int() and str.strip() ignore them)
RECURSIVE Strip(_)
Strip(s) ==
    IF s = <<>> THEN s
    ELSE IF s[1] = " " THEN Strip(Tail(s))
    ELSE IF s[Len(s)] = " " THEN Strip(SubSeq(s, 1, Len(s) - 1))
    ELSE s

\* int(s) does not raise ValueError
int_ok(s) ==
    LET t == Strip(s)
        u == IF t # <<>> /\ t[1] \in {"-", "+"} THEN Tail(t) ELSE t
    IN  u # <<>> /\ \A i \in 1..Len(u) : IsDigit(u[i])

int_of(s) ==
    LET t == Strip(s)
        u == IF t[1] \in {"-", "+"} THEN Tail(t) ELSE t
    IN  IF t[1] = "-" THEN 0 - DigitsVal(u) ELSE DigitsVal(u)

\* ---- configuration (get_env) ----
\* Environment texts are sequences of characters; <<>> stands for a variable
\* that is unset or empty, which get_env does not tell apart.  None is the
\* default of the optional settings and is <<>> as well, so that Python's
\* truth test of a setting is "# None".
None == <<>>

\* get_env: an unset or empty variable yields the default
get_env(raw, default) == IF raw = <<>> THEN default ELSE raw

\* ---- inputs of the model ----
RECURSIVE SeqsUpTo(_, _)
SeqsUpTo(S, n) ==
    IF n = 0 THEN {<<>>}
    ELSE LET shorter == SeqsUpTo(S, n - 1)
         IN  shorter \cup {Append(q, x) : q \in {r \in shorter : Len(r) = n - 1}, x \in S}

\* the clock of the host when the run starts: 2025-04-10 09:30:00 UTC
Now == days_from_civil(2025, 4, 10) * DaySeconds + 34200

\* values of the SCRAPING_ENABLED variable
ScrapingRaw == {<<>>, <<"1">>, <<"0">>, <<"t", "r", "u", "e">>}

\* values of CHECK_DAYS_AHEAD: unset, the counts 0..MaxDays, a non-integer
DaysAheadRaw == {<<>>, <<"x">>} \cup {<<Digits[n + 1]>> : n \in 0..MaxDays}

\* entries of CHECK_SPECIFIC_DAYS after split(","): a day and "2025-13-40"
DayA == [fmt |-> TRUE, y |-> 2025, m |-> 4, d |-> 10]
DayB == [fmt |-> TRUE, y |-> 2025, m |-> 4, d |-> 11]
DayBad == [fmt |-> TRUE, y |-> 2025, m |-> 13, d |-> 40]
DayPool == {DayB, DayBad}

\* values of CHECK_SPECIFIC_DAYS: None, or the entries of a non-empty text
SpecificRaw == SeqsUpTo(DayPool, MaxDays)

\* the date settings a run is started with: a list, a count, both or none
DateSettings ==
    {<<sd, <<>>>> : sd \in SpecificRaw}
    \cup {<<<<>>, da>> : da \in DaysAheadRaw}
    \cup {<<<<DayB, DayA>>, <<"1">>>>}

\* the environments a run is started in: SCRAPING_ENABLED is set and so may
\* the date settings be, or nothing is set and every default applies
Environments ==
    {<<raw, ds>> : raw \in ScrapingRaw \ {<<>>}, ds \in DateSettings}
    \cup {<<<<>>, <<<<>>, <<>>>>>>}

\* the hosts a run is started on: the offset east of UTC of the local zone,
\* and TIME_INTERVAL_START / TIME_INTERVAL_END as <<hour, minute>> (the
\* window 16:00-20:00, and the defaults of lines 32-33)
Hosts ==
    { [tz |-> 0, start |-> <<16, 0>>, end |-> <<20, 0>>],
      [tz |-> 7200, start |-> <<8, 0>>, end |-> <<22, 0>>] }

\* session tokens: the stored one and those the login endpoint may issue
InitialSession == "s0"
IssuedTokens == {"s1", "s2"}
Tokens == {InitialSession} \cup IssuedTokens

\* slots the API may return: 17:00 free, 21:00 free, 18:00 taken
SlotDay == days_from_civil(2025, 4, 11) * DaySeconds
Slot17 == [time |-> SlotDay + 17 * 3600, is_available |-> 1]
Slot21 == [time |-> SlotDay + 21 * 3600, is_available |-> 1]
Slot18 == [time |-> SlotDay + 18 * 3600, is_available |-> 0]
SlotLists == {<<>>, <<Slot17>>, <<Slot21, Slot18>>, <<Slot17, Slot21, Slot18>>}

\* responses of the availability endpoint.  text is the part of the body the
\* auth check looks for; body tells whether response.json() raises ("text"),
\* yields a value that is no object ("json") or yields an object ("dict")
Resp(st, mk, bd, su, sl) ==
    [status |-> st, text |-> mk, body |-> bd, success |-> su, available_slots |-> sl]

Responses ==
    \* 200 without an auth error
    { Resp(200, "", "text", 0, <<>>), Resp(200, "", "json", 0, <<>>),
      Resp(200, "", "dict", 0, <<>>), Resp(200, "", "dict", 0, <<Slot17>>) }
    \cup { Resp(200, "", "dict", 1, sl) : sl \in SlotLists }
    \* 200 with an auth error in the body
    \cup { Resp(200, "auth_error", "text", 0, <<>>), Resp(200, "auth_error", "dict", 0, <<>>),
           Resp(200, "Auth_Error", "dict", 0, <<>>),
           Resp(200, "auth_error", "dict", 1, <<Slot17>>) }
    \* error statuses
    \cup { Resp(401, "", "text", 0, <<>>), Resp(401, "", "dict", 1, <<Slot17>>),
           Resp(500, "", "text", 0, <<>>), Resp(500, "auth_error", "text", 0, <<>>),
           Resp(404, "", "text", 0, <<>>), Resp(404, "auth_error", "text", 0, <<>>) }

NoResponse == Resp(0, "", "text", 0, <<>>)

\* responses of the login endpoint: the token of the cookie jar ("" if
\* absent), the body, and the token of the Set-Cookie header ("none" if the
\* header has no "client_session=", "" if it has it with an empty value)
LoginResponses ==
    { [status |-> st, cookie |-> ck, body |-> bd, success |-> su, set_cookie |-> hd]
        : st \in {200, 403}, ck \in IssuedTokens \cup {""}, bd \in {"text", "dict"},
          su \in {0, 1}, hd \in {"none", "", "s1"} }

\* outcomes of a call that is not inspected beyond its status: the transport
\* raised, or a response with a status arrived
HttpOutcomes == {[exc |-> TRUE, status |-> 0]} \cup {[exc |-> FALSE, status |-> st] : st \in {200, 403}}

\* ---- state ----
VARIABLES
    os_environ,           \* the raw SCRAPING_ENABLED variable of the environment
    tzoffset,             \* offset east of UTC of the host's zone, seconds
    SCRAPING_ENABLED,     \* module globals, set when the module is loaded
    CHECK_DAYS_AHEAD,
    CHECK_SPECIFIC_DAYS,
    TIME_INTERVAL_START,
    TIME_INTERVAL_END,
    CLIENT_SESSION,
    github_vars,          \* the repository variables behind the GitHub API
    pc,                   \* position of the run
    error,                \* where the uncaught exception came from, or ""
    dates_to_check,       \* locals of main
    idx,                  \* position of the for loop in dates_to_check
    all_slots,
    slots,
    message,
    headers,              \* locals of check_slots_for_date: the Cookie token
    response,
    first_response,       \* the response of line 220, kept for reference
    log                   \* every call to a collaborator and every value a
                          \* fetch returned, in order

vars == <<os_environ, tzoffset, SCRAPING_ENABLED, CHECK_DAYS_AHEAD, CHECK_SPECIFIC_DAYS,
          TIME_INTERVAL_START, TIME_INTERVAL_END, CLIENT_SESSION, github_vars, pc, error,
          dates_to_check, idx, all_slots, slots, message, headers, response,
          first_response, log>>

config == <<os_environ, tzoffset, SCRAPING_ENABLED, CHECK_DAYS_AHEAD, CHECK_SPECIFIC_DAYS,
            TIME_INTERVAL_START, TIME_INTERVAL_END>>

NoMessage == [entries |-> <<>>, interval |-> <<>>, days_ahead |-> <<>>, specific_days |-> <<>>]

Event(op, val, ok) == [op |-> op, idx |-> idx, val |-> val, ok |-> ok, data |-> <<>>]

\* ---- pure functions of the program ----

\* get_dates_to_check, rule 1: the timestamps of the entries strptime accepts
RECURSIVE specific_dates(_, _)
specific_dates(entries, tzoff) ==
    IF entries = <<>> THEN <<>>
    ELSE LET rest == specific_dates(Tail(entries), tzoff)
         IN  IF strptime_ok(Head(entries))
             THEN <<naive_timestamp(Head(entries), tzoff)>> \o rest
             ELSE rest

\* get_dates_to_check, rule 2: range(days_ahead) days from today's UTC midnight;
\* a count that is no integer leaves the list empty
ahead_dates(days_ahead, now) ==
    IF int_ok(days_ahead)
    THEN LET n == int_of(days_ahead)
         IN  [i \in 1..(IF n > 0 THEN n ELSE 0) |-> utc_midnight(now) + (i - 1) * DaySeconds]
    ELSE <<>>

\* a list without a well-formed entry is treated like no list
get_dates_to_check_fallthrough(specific, days_ahead, tzoff, now) ==
    IF specific # None /\ specific_dates(specific, tzoff) # <<>> THEN specific_dates(specific, tzoff)
    ELSE IF days_ahead # None THEN ahead_dates(days_ahead, now)
    ELSE <<utc_midnight(now)>>

get_dates_to_check(specific, days_ahead, tzoff, now) ==
    IF specific # None THEN specific_dates(specific, tzoff)
    ELSE IF days_ahead # None THEN ahead_dates(days_ahead, now)
    ELSE <<utc_midnight(now)>>

\* str.lower() of the part of the body the auth check looks at
lower(text) == IF text = "Auth_Error" THEN "auth_error" ELSE text

\* every error status is taken for an expired session
is_auth_failure_any_error(r) == r.status >= 400 \/ lower(r.text) = "auth_error"

\* line 224: the session may have expired
is_auth_failure(r) == r.status \in {401, 500} \/ lower(r.text) = "auth_error"

\* response.raise_for_status() raises
raises_for_status(status) == status >= 400

\* login_to_calendis, lines 147-157: the token of the cookie jar, else the one
\* of the Set-Cookie header of a response whose body says success
login_token(lr) ==
    IF lr.cookie # "" THEN lr.cookie
    ELSE IF lr.success = 1 /\ lr.set_cookie # "none" THEN lr.set_cookie
    ELSE ""

\* login_to_calendis, lines 144-160: what makes the call raise, "" if nothing
login_failure(lr) ==
    IF raises_for_status(lr.status) THEN "status"
    ELSE IF lr.cookie = "" /\ lr.body # "dict" THEN "json"
    ELSE IF login_token(lr) = "" THEN "no_token"
    ELSE ""

\* the token is not looked at before it is returned
login_ok_unchecked(lr) ==
    /\ ~raises_for_status(lr.status)
    /\ (lr.cookie = "" => lr.body = "dict")

\* login_to_calendis returns (does not raise)
login_ok(lr) ==
    /\ ~raises_for_status(lr.status)
    /\ (lr.cookie = "" => lr.body = "dict")
    /\ login_token(lr) # ""

\* the end of the window is excluded
is_slot_in_time_interval_exclusive(slot_timestamp, start, end) ==
    /\ parse_time_str(start) <= time_of_day(slot_timestamp)
    /\ time_of_day(slot_timestamp) < parse_time_str(end)

is_slot_in_time_interval(slot_timestamp, start, end) ==
    /\ parse_time_str(start) <= time_of_day(slot_timestamp)
    /\ time_of_day(slot_timestamp) <= parse_time_str(end)

\* line 247
slot_kept(slot, start, end) ==
    is_slot_in_time_interval(slot.time, start, end) /\ slot.is_available = 1

RECURSIVE filter_slots(_, _, _)
filter_slots(sl, start, end) ==
    IF sl = <<>> THEN <<>>
    ELSE LET rest == filter_slots(Tail(sl), start, end)
         IN  IF slot_kept(Head(sl), start, end) THEN <<Head(sl)>> \o rest ELSE rest

\* the success indicator is not looked at
fetch_result_ignoring_success(data, start, end) ==
    filter_slots(data.available_slots, start, end)

\* lines 241-249: the value check_slots_for_date returns for a parsed object;
\* None and the empty list are both <<>>
fetch_result(data, start, end) ==
    IF data.success # 1 THEN <<>>
    ELSE filter_slots(data.available_slots, start, end)

\* the entry is added even if the label is already present
dict_set_append(d, key, value) == Append(d, [date_str |-> key, slots |-> value])

\* all_slots[date_str] = slots on a dict that keeps insertion order
dict_set(d, key, value) ==
    IF \E i \in 1..Len(d) : d[i].date_str = key
    THEN [i \in 1..Len(d) |-> IF d[i].date_str = key THEN [date_str |-> key, slots |-> value] ELSE d[i]]
    ELSE Append(d, [date_str |-> key, slots |-> value])

\* lines 269-279
compose(d, start, end, days_ahead, specific) ==
    [ entries |-> [i \in 1..Len(d) |->
          [date_str |-> d[i].date_str,
           times |-> [j \in 1..Len(d[i].slots) |-> hhmm(d[i].slots[j].time)]]],
      interval |-> <<start, end>>,
      days_ahead |-> days_ahead,
      specific_days |-> specific ]

\* the assignment does not reach the global
renewed_session_lost(current, token) == current

\* line 226: the token the run holds after a login that returned token
renewed_session(current, token) == token

\* line 229: the Cookie token of the retried query
retry_cookie(session, cookie) == session

\* the GitHub API stored the value it was sent
write_applied(o) == ~o.exc /\ o.status < 400

\* without line 186 only a transport error raises
update_raises_transport_only(o) == o.exc

\* update_github_env_variable, lines 185-186: the call raises
update_raises(o) == o.exc \/ raises_for_status(o.status)

\* a second round: the retried response is classified again
after_persist_again(r, queries) ==
    IF is_auth_failure(r) /\ queries < 3 THEN "login" ELSE "parse"

\* lines 233-236: after the token is stored the retried response is handled
\* like a first one that is no auth failure; it is not classified again
after_persist(r, queries) == "parse"

\* the response of line 220 is parsed although a retry was made
parsed_response_first(first, last) == first

\* line 236: the response that is parsed is the last one received
parsed_response(first, last) == last

\* every result is entered, None included
aggregate_always(d, key, result) == dict_set(d, key, result)

\* lines 262-263: only a non-empty result is entered under its date label
aggregate(d, key, result) == IF result # <<>> THEN dict_set(d, key, result) ELSE d

\* the flag is not looked at
main_stops_never(enabled) == FALSE

\* line 252: the run stops before doing anything
main_stops(enabled) == ~enabled

\* number of events op logged while date number i was fetched
Count(op, i) == Cardinality({k \in 1..Len(log) : log[k].op = op /\ log[k].idx = i})

\* the Telegram API accepted the message
send_ok(o) == ~o.exc /\ o.status = 200

\* a transport error escapes the call
send_raises_on_error(o) == o.exc

\* send_telegram_notification, lines 107-112: a failure is printed and
\* nothing is raised
send_raises(o) == FALSE

\* ---- the run ----
Init ==
    /\ \E e \in Environments :
          /\ os_environ = e[1]
          /\ CHECK_SPECIFIC_DAYS = get_env(e[2][1], None)
          /\ CHECK_DAYS_AHEAD = get_env(e[2][2], None)
    /\ SCRAPING_ENABLED = (get_env(os_environ, <<"1">>) = <<"1">>)
    /\ \E h \in Hosts :
          /\ tzoffset = h.tz
          /\ TIME_INTERVAL_START = get_env(h.start, <<8, 0>>)
          /\ TIME_INTERVAL_END = get_env(h.end, <<22, 0>>)
    /\ CLIENT_SESSION = InitialSession
    /\ github_vars = [CLIENT_SESSION |-> InitialSession, SCRAPING_ENABLED |-> os_environ]
    /\ pc = "main"
    /\ error = ""
    /\ dates_to_check = <<>>
    /\ idx = 0
    /\ all_slots = <<>>
    /\ slots = <<>>
    /\ message = NoMessage
    /\ headers = ""
    /\ response = NoResponse
    /\ first_response = NoResponse
    /\ log = <<>>

\* the switch-off of line 284 is reached although nothing was found
Continue_disabling(d, i, ds) ==
    /\ message' = message
    /\ pc' = IF i <= Len(ds) THEN "get" ELSE IF d = <<>> THEN "disable" ELSE "send"

\* the for loop of main and lines 265-281: go to the next date's fetch, or
\* leave the loop and either return or compose the message to send
Continue(d, i, ds) ==
    IF i <= Len(ds) THEN pc' = "get" /\ message' = message
    ELSE IF d = <<>> THEN pc' = "returned" /\ message' = message
    ELSE /\ pc' = "send"
         /\ message' = compose(d, TIME_INTERVAL_START, TIME_INTERVAL_END,
                                CHECK_DAYS_AHEAD, CHECK_SPECIFIC_DAYS)

\* an exception of a fetch is swallowed and the run goes on to notify
Raise_swallowed(where) ==
    /\ error' = where
    /\ pc' = IF where = "disable" THEN "raised" ELSE "send"

\* lines 237-239 and the absence of any handler in main: an exception ends
\* the run
Raise(where) == pc' = "raised" /\ error' = where

\* main, lines 252-258
Main ==
    /\ pc = "main"
    /\ IF main_stops(SCRAPING_ENABLED)
       THEN /\ pc' = "returned"
            /\ UNCHANGED <<dates_to_check, idx, all_slots, message>>
       ELSE LET ds == get_dates_to_check(CHECK_SPECIFIC_DAYS, CHECK_DAYS_AHEAD, tzoffset, Now)
            IN  /\ dates_to_check' = ds
                /\ idx' = 1
                /\ all_slots' = <<>>
                /\ Continue(<<>>, 1, ds)
    /\ UNCHANGED <<config, CLIENT_SESSION, github_vars, error, slots, headers, response,
                   first_response, log>>

\* check_slots_for_date, lines 196-224: the first query of a date
Request ==
    /\ pc = "get"
    /\ headers' = CLIENT_SESSION
    /\ \/ /\ log' = Append(log, Event("query", CLIENT_SESSION, FALSE))
          /\ response' = NoResponse
          /\ Raise("query")
       \/ \E r \in Responses :
            /\ log' = Append(log, Event("query", CLIENT_SESSION, TRUE))
            /\ response' = r
            /\ pc' = IF is_auth_failure(r) THEN "login" ELSE "parse"
            /\ error' = error
    /\ first_response' = response'
    /\ UNCHANGED <<config, CLIENT_SESSION, github_vars, dates_to_check, idx, all_slots,
                   slots, message>>

\* line 226, login_to_calendis
Login ==
    /\ pc = "login"
    /\ \/ /\ log' = Append(log, Event("login", "exception", FALSE))
          /\ Raise("login")
          /\ UNCHANGED CLIENT_SESSION
       \/ \E lr \in LoginResponses :
            IF login_ok(lr)
            THEN /\ log' = Append(log, Event("login", login_token(lr), TRUE))
                 /\ CLIENT_SESSION' = renewed_session(CLIENT_SESSION, login_token(lr))
                 /\ pc' = "retry"
                 /\ error' = error
            ELSE /\ log' = Append(log, Event("login", login_failure(lr), FALSE))
                 /\ Raise("login")
                 /\ UNCHANGED CLIENT_SESSION
    /\ UNCHANGED <<config, github_vars, dates_to_check, idx, all_slots, slots, message,
                   headers, response, first_response>>

\* lines 229-230: the retried query
Retry ==
    /\ pc = "retry"
    /\ headers' = retry_cookie(CLIENT_SESSION, headers)
    /\ \/ /\ log' = Append(log, Event("query", headers', FALSE))
          /\ response' = NoResponse
          /\ Raise("retry")
       \/ \E r \in Responses :
            /\ log' = Append(log, Event("query", headers', TRUE))
            /\ response' = r
            /\ pc' = "persist"
            /\ error' = error
    /\ UNCHANGED <<config, CLIENT_SESSION, github_vars, dates_to_check, idx, all_slots,
                   slots, message, first_response>>

\* line 233: the renewed token is written to the repository variables
Persist ==
    /\ pc = "persist"
    /\ \E o \in HttpOutcomes :
          /\ log' = Append(log, Event("set_CLIENT_SESSION", CLIENT_SESSION, write_applied(o)))
          /\ github_vars' = IF write_applied(o)
                            THEN [github_vars EXCEPT !.CLIENT_SESSION = CLIENT_SESSION]
                            ELSE github_vars
          /\ IF update_raises(o)
             THEN Raise("persist")
             ELSE /\ pc' = after_persist(response, Count("query", idx))
                  /\ error' = error
    /\ UNCHANGED <<config, CLIENT_SESSION, dates_to_check, idx, all_slots, slots, message,
                   headers, response, first_response>>

\* lines 235-249, then lines 262-263 and the loop of main
Finish ==
    /\ pc = "parse"
    /\ LET data == parsed_response(first_response, response)
       IN  IF raises_for_status(data.status) THEN
                Raise("status") /\ UNCHANGED <<idx, all_slots, slots, message, log>>
           ELSE IF data.body = "text" THEN
                Raise("json") /\ UNCHANGED <<idx, all_slots, slots, message, log>>
           ELSE IF data.body # "dict" THEN
                Raise("data") /\ UNCHANGED <<idx, all_slots, slots, message, log>>
           ELSE LET result == fetch_result(data, TIME_INTERVAL_START, TIME_INTERVAL_END)
                    d == aggregate(all_slots, date_label(dates_to_check[idx]), result)
                IN  /\ slots' = result
                    /\ log' = Append(log, [Event("return", IF result = <<>> THEN "none" ELSE "slots", TRUE)
                                              EXCEPT !.data = result])
                    /\ all_slots' = d
                    /\ idx' = idx + 1
                    /\ error' = error
                    /\ Continue(d, idx + 1, dates_to_check)
    /\ UNCHANGED <<config, CLIENT_SESSION, github_vars, dates_to_check, headers, response,
                   first_response>>

\* line 282, send_telegram_notification: a failure is printed, never raised
Send ==
    /\ pc = "send"
    /\ \E o \in HttpOutcomes :
          /\ log' = Append(log, Event("send", "", send_ok(o)))
          /\ IF send_raises(o)
             THEN Raise("send")
             ELSE pc' = "disable" /\ error' = error
    /\ UNCHANGED <<config, CLIENT_SESSION, github_vars, dates_to_check, idx,
                   all_slots, slots, message, headers, response, first_response>>

\* line 284: scraping is switched off in the repository variables
Disable ==
    /\ pc = "disable"
    /\ \E o \in HttpOutcomes :
          /\ log' = Append(log, Event("set_SCRAPING_ENABLED", "0", write_applied(o)))
          /\ github_vars' = IF write_applied(o)
                            THEN [github_vars EXCEPT !.SCRAPING_ENABLED = <<"0">>]
                            ELSE github_vars
          /\ IF update_raises(o)
             THEN Raise("disable")
             ELSE /\ pc' = "returned"
                  /\ error' = error
    /\ UNCHANGED <<config, CLIENT_SESSION, dates_to_check, idx, all_slots, slots, message,
                   headers, response, first_response>>

Next == Main \/ Request \/ Login \/ Retry \/ Persist \/ Finish \/ Send \/ Disable

Spec == Init /\ [][Next]_vars

\* every call to a collaborator returns or raises
FairSpec == Spec /\ WF_vars(Next)

TypeOK ==
    /\ pc \in {"main", "get", "login", "retry", "persist", "parse", "send", "disable",
               "returned", "raised"}
    /\ CLIENT_SESSION \in Tokens
    /\ idx \in 0..(Len(dates_to_check) + 1)

\* ---- vocabulary of the properties ----

\* the places an exception of check_slots_for_date comes from
FetchErrors == {"query", "login", "retry", "persist", "status", "json", "data"}

\* a fetch is between its first query and its return
InFetch == pc \in {"login", "retry", "persist", "parse"}

\* a fetch raised, which ends the run
FetchRaised == pc = "raised" /\ error \in FetchErrors

\* the date number the locals response and first_response belong to
CurDate == IF InFetch \/ FetchRaised THEN idx ELSE idx - 1

\* the fetch of date number CurDate returned a value to main
FetchReturned == idx > 1 /\ ~InFetch /\ ~FetchRaised

\* a login succeeded while date number i was fetched
Relogged(i) == \E k \in 1..Len(log) : log[k].op = "login" /\ log[k].idx = i /\ log[k].ok

Has(op) == \E k \in 1..Len(log) : log[k].op = op

Terminated == pc \in {"returned", "raised"}

\* ---- C1 ----
\* C1 (as claimed): when the first response of a date is an auth failure, the
\* login succeeds and the retried response is an auth failure by the same rule
\* (status 401 or 500, or "auth_error" in the body), the fetch does not return
\* a value to main: no fetch that went through a login returns after a retried
\* response that is an auth failure.
C1_RetryAuthFailureIsFatal ==
    (FetchReturned /\ Relogged(CurDate)) => ~is_auth_failure(response)

\* ---- C2 ----
\* C2: a date's fetch issues at most two availability queries and at most one
\* login, so the run issues at most 2N queries and N logins for its N dates,
\* and it ends, in the state "returned" or in the state "raised".
C2_QueryBound ==
    /\ \A i \in 0..(Len(dates_to_check) + 1) :
          /\ Count("query", i) <= (IF i \in 1..Len(dates_to_check) THEN 2 ELSE 0)
          /\ Count("login", i) <= (IF i \in 1..Len(dates_to_check) THEN 1 ELSE 0)
    /\ \A k \in 1..Len(log) : log[k].idx \in 0..(Len(dates_to_check) + 1)

C2_BoundedRetries == [](C2_QueryBound) /\ <>Terminated

\* a run over two dates that ended after four queries and two logins
C2_Witness ==
    /\ Terminated
    /\ Len(dates_to_check) = 2
    /\ Count("query", 1) = 2 /\ Count("query", 2) = 2
    /\ Count("login", 1) = 1 /\ Count("login", 2) = 1

\* ---- C3 ----
Events(op, i) == {k \in 1..Len(log) : log[k].op = op /\ log[k].idx = i}

CountAll(op) == Cardinality({k \in 1..Len(log) : log[k].op = op})

Max(S) == CHOOSE x \in S : \A y \in S : y <= x

\* the token the login made for date number i returned
LoginToken(i) == log[CHOOSE k \in Events("login", i) : log[k].ok].val

\* the response is one that lines 235-236 accept
Parsable(r) == ~raises_for_status(r.status) /\ r.body = "dict"

\* the first response had status 401, the login and the write of the token
\* succeeded, the retried response is a 2xx JSON object, and the fetch is over
C3_Case ==
    /\ CurDate >= 1
    /\ first_response.status = 401
    /\ Relogged(CurDate)
    /\ \E k \in Events("set_CLIENT_SESSION", CurDate) : log[k].ok
    /\ Parsable(response)
    /\ pc # "parse"

\* C3: when a date's first response has status 401 and the login, the retried
\* query and the write of the token succeed, the fetch makes exactly one retry,
\* with the new token, returns the filtered slots of the retried response, and
\* writes CLIENT_SESSION exactly once, with the new token.
C3_RetryOnceAndPersistOnce ==
    C3_Case =>
        /\ FetchReturned
        /\ Count("login", CurDate) = 1
        /\ Count("query", CurDate) = 2
        /\ log[Max(Events("query", CurDate))].val = LoginToken(CurDate)
        /\ Max(Events("query", CurDate)) > Max(Events("login", CurDate))
        /\ Count("set_CLIENT_SESSION", CurDate) = 1
        /\ \A k \in Events("set_CLIENT_SESSION", CurDate) : log[k].val = LoginToken(CurDate)
        /\ github_vars.CLIENT_SESSION = LoginToken(CurDate)
        /\ slots = fetch_result(response, TIME_INTERVAL_START, TIME_INTERVAL_END)

\* the case, with a first response whose slots differ from the retried one's
C3_Witness ==
    /\ C3_Case
    /\ slots # <<>>
    /\ fetch_result(first_response, TIME_INTERVAL_START, TIME_INTERVAL_END) # slots

\* ---- C4 ----
\* C4: once a date's fetch has raised, the run is in its failure state, no
\* call was made after the failing date's calls (no later date is queried), the
\* notification was not sent and the "scraping enabled" flag was not written.
C4_AbortOnFetchError ==
    error \in FetchErrors =>
        /\ pc = "raised"
        /\ ~Has("send")
        /\ ~Has("set_SCRAPING_ENABLED")
        /\ github_vars.SCRAPING_ENABLED = os_environ
        /\ \A k \in 1..Len(log) : log[k].idx <= idx
        /\ log # <<>>
        /\ log[Len(log)].idx = idx
        /\ log[Len(log)].op \in {"query", "login", "set_CLIENT_SESSION"}

\* a fetch raised after an earlier date had produced qualifying slots
C4_Witness == FetchRaised /\ all_slots # <<>> /\ idx = 2

\* ---- C5 ----
\* C5 (as claimed): SCRAPING_ENABLED is written only in a run whose
\* notification send succeeded.
C5_DisableOnlyAfterSuccessfulSend ==
    Has("set_SCRAPING_ENABLED") => \E k \in 1..Len(log) : log[k].op = "send" /\ log[k].ok

\* C5 (amended): SCRAPING_ENABLED is written only in a run in which the
\* notification send was attempted, right after that attempt and whether or not
\* it succeeded; it is never written in a run that attempted no send.
C5_DisableOnlyAfterSendAttempt ==
    /\ \A k \in 1..Len(log) :
          log[k].op = "set_SCRAPING_ENABLED" => (k > 1 /\ log[k - 1].op = "send")
    /\ github_vars.SCRAPING_ENABLED # os_environ => Has("send")
    /\ pc = "disable" => Has("send")

\* the flag was switched off after a send that failed
C5_Witness ==
    /\ github_vars.SCRAPING_ENABLED = <<"0">>
    /\ os_environ # <<"0">>
    /\ \E k \in 1..Len(log) : log[k].op = "send" /\ ~log[k].ok

\* ---- C6 ----
\* every date was fetched without error and some date had qualifying slots
C6_Case ==
    /\ pc # "main"
    /\ SCRAPING_ENABLED
    /\ idx = Len(dates_to_check) + 1
    /\ all_slots # <<>>

\* C6: when every fetch completed without error and the aggregated result is
\* not empty, the notification is sent exactly once, after the last fetch, and
\* the write of the disable flag follows the send; a failed send does not end
\* the run and does not prevent that write.
C6_NotifyOnceThenDisable ==
    C6_Case =>
        /\ pc \in {"send", "disable", "returned", "raised"}
        /\ pc = "send" => (~Has("send") /\ ~Has("set_SCRAPING_ENABLED"))
        /\ pc = "disable" =>
              /\ CountAll("send") = 1
              /\ log[Len(log)].op = "send"
              /\ ~Has("set_SCRAPING_ENABLED")
        /\ pc \in {"returned", "raised"} =>
              /\ CountAll("send") = 1
              /\ CountAll("set_SCRAPING_ENABLED") = 1
              /\ log[Len(log)].op = "set_SCRAPING_ENABLED"
              /\ log[Len(log) - 1].op = "send"
        /\ pc = "raised" => (error = "disable" /\ ~log[Len(log)].ok)
        /\ pc = "returned" => github_vars.SCRAPING_ENABLED = <<"0">>

\* the run completed although the send failed
C6_Witness ==
    /\ C6_Case
    /\ pc = "returned"
    /\ ~log[Len(log) - 1].ok

\* ---- C7 ----
\* no fetch so far returned slots
C7_AllNone == \A k \in 1..Len(log) : log[k].op = "return" => log[k].val = "none"

\* C7: as long as every date yields "no slots", the aggregated result is
\* empty, the notification is not sent and the flag is not written; the run
\* returns without either.
C7_NoSlotsNoNotification ==
    (SCRAPING_ENABLED /\ C7_AllNone) =>
        /\ all_slots = <<>>
        /\ pc \notin {"send", "disable"}
        /\ ~Has("send")
        /\ ~Has("set_SCRAPING_ENABLED")
        /\ github_vars.SCRAPING_ENABLED = os_environ
        /\ message = NoMessage

\* a run over two dates ended with no slots, the last response having slots
\* that were all filtered out
C7_Witness ==
    /\ SCRAPING_ENABLED /\ C7_AllNone
    /\ pc = "returned"
    /\ Len(dates_to_check) = 2
    /\ CountAll("return") = 2
    /\ response.success = 1
    /\ response.available_slots # <<>>

\* ---- C8 ----
\* C8: when the flag is off the run stops at once: it makes no query, no
\* login, no send and no write, resolves no dates and keeps its session.
C8_DisabledRunDoesNothing ==
    ~SCRAPING_ENABLED =>
        /\ pc \in {"main", "returned"}
        /\ log = <<>>
        /\ error = ""
        /\ dates_to_check = <<>>
        /\ CLIENT_SESSION = InitialSession
        /\ github_vars = [CLIENT_SESSION |-> InitialSession, SCRAPING_ENABLED |-> os_environ]

C8_Witness == ~SCRAPING_ENABLED /\ pc = "returned" /\ os_environ = <<"0">>

\* ---- C9 ----
\* the token of the last successful login before event k, else the stored one
LastToken(k) ==
    LET S == {j \in 1..(k - 1) : log[j].op = "login" /\ log[j].ok}
    IN  IF S = {} THEN InitialSession ELSE log[Max(S)].val

\* C9: every query carries the token of the last successful login of the run
\* (the stored token before any login), so after a renewal no query carries
\* the original token; the session the run holds is that same token.
C9_QueriesCarryRenewedToken ==
    /\ \A k \in 1..Len(log) :
          log[k].op = "query" =>
              /\ log[k].val = LastToken(k)
              /\ (\E j \in 1..(k - 1) : log[j].op = "login" /\ log[j].ok)
                    => log[k].val # InitialSession
    /\ CLIENT_SESSION = LastToken(Len(log) + 1)

\* the first query of date 2 carries the token renewed while fetching date 1
C9_Witness ==
    /\ Relogged(1)
    /\ \E k \in Events("query", 2) : log[k].val = LoginToken(1) /\ log[k].val # InitialSession
    /\ Count("login", 2) = 0

\* ---- C10 ----
\* C10: a failed write of CLIENT_SESSION ends the fetch and the run in the
\* failure state, with nothing returned for that date and no notification; a
\* failed write of the disable flag ends the run in the failure state.
C10_FailedWriteIsFatal ==
    /\ (\E k \in 1..Len(log) : log[k].op = "set_CLIENT_SESSION" /\ ~log[k].ok) =>
          /\ pc = "raised" /\ error = "persist"
          /\ log[Len(log)].op = "set_CLIENT_SESSION"
          /\ Count("return", idx) = 0
          /\ ~Has("send")
    /\ (\E k \in 1..Len(log) : log[k].op = "set_SCRAPING_ENABLED" /\ ~log[k].ok) =>
          /\ pc = "raised" /\ error = "disable"
          /\ log[Len(log)].op = "set_SCRAPING_ENABLED"

\* the write of the token failed after a retried query that had qualifying slots
C10_Witness ==
    /\ pc = "raised" /\ error = "persist"
    /\ Parsable(response)
    /\ fetch_result(response, TIME_INTERVAL_START, TIME_INTERVAL_END) # <<>>

\* ---- C11 ----
\* C11 (as claimed): with no explicit date list and a day-count that is no
\* integer, the dates resolved are the single date of today's UTC midnight.
C11_NonIntegerCountMeansToday ==
    (pc # "main" /\ SCRAPING_ENABLED /\ CHECK_SPECIFIC_DAYS = None /\ CHECK_DAYS_AHEAD = <<"x">>)
        => dates_to_check = <<utc_midnight(Now)>>

\* ---- C12 ----
\* C12 (as claimed): every date resolved, under each selection rule and on
\* every host, is an instant at 00:00:00 UTC, a timestamp divisible by 86400.
C12_DatesAreUtcMidnight ==
    \A i \in 1..Len(dates_to_check) : dates_to_check[i] % 86400 = 0

\* ---- get_dates_to_check on its own ----
\* entries of CHECK_SPECIFIC_DAYS: days, "2025-13-40", a text that is no date,
\* the 29th of February of a common year and of a leap year
DayText == [fmt |-> FALSE, y |-> 0, m |-> 0, d |-> 0]
DayFeb29Common == [fmt |-> TRUE, y |-> 2025, m |-> 2, d |-> 29]
DayFeb29Leap == [fmt |-> TRUE, y |-> 2024, m |-> 2, d |-> 29]
DayPoolWide == {DayA, DayB, DayBad, DayText, DayFeb29Common, DayFeb29Leap}

\* the texts int() reads as the count n < 10
CountTexts(n) == {<<Digits[n + 1]>>, <<" ", Digits[n + 1]>>, <<"+", Digits[n + 1]>>}

\* values of CHECK_DAYS_AHEAD: unset, counts, and texts that are no count
DaysAheadWide ==
    {<<>>, <<"x">>, <<"-", "1">>, <<"2", ".", "5">>, <<"1", "0">>}
    \cup UNION {CountTexts(n) : n \in 0..MaxDays}

TzOffsetsWide == {0, 7200, 0 - 18000}

\* the state after the module is loaded, the settings apart
Loaded ==
    /\ CLIENT_SESSION = InitialSession
    /\ github_vars = [CLIENT_SESSION |-> InitialSession, SCRAPING_ENABLED |-> os_environ]
    /\ pc = "main"
    /\ error = ""
    /\ dates_to_check = <<>>
    /\ idx = 0
    /\ all_slots = <<>>
    /\ slots = <<>>
    /\ message = NoMessage
    /\ headers = ""
    /\ response = NoResponse
    /\ first_response = NoResponse
    /\ log = <<>>

InitDates ==
    /\ os_environ = <<"1">>
    /\ SCRAPING_ENABLED = (get_env(os_environ, <<"1">>) = <<"1">>)
    /\ CHECK_SPECIFIC_DAYS \in SeqsUpTo(DayPoolWide, MaxDays)
    /\ CHECK_DAYS_AHEAD \in DaysAheadWide
    /\ tzoffset \in TzOffsetsWide
    /\ TIME_INTERVAL_START = <<8, 0>>
    /\ TIME_INTERVAL_END = <<22, 0>>
    /\ Loaded

\* line 256: one call of get_dates_to_check
ResolveDates ==
    /\ pc = "main"
    /\ dates_to_check' = get_dates_to_check(CHECK_SPECIFIC_DAYS, CHECK_DAYS_AHEAD, tzoffset, Now)
    /\ pc' = "resolved"
    /\ UNCHANGED <<config, CLIENT_SESSION, github_vars, error, idx, all_slots, slots, message,
                   headers, response, first_response, log>>

NextDates == ResolveDates

SpecDates == InitDates /\ [][NextDates]_vars

\* ---- C13 ----
\* the entry names a day of the calendar: the day number of its year, month
\* and day converts back to the same year, month and day
NamesADay(e) ==
    /\ e.fmt
    /\ e.m \in 1..12 /\ e.d \in 1..31
    /\ civil_from_days(days_from_civil(e.y, e.m, e.d)) = <<e.y, e.m, e.d>>

\* positions of the well-formed entries of the explicit list
WellFormedAt == {i \in 1..Len(CHECK_SPECIFIC_DAYS) : NamesADay(CHECK_SPECIFIC_DAYS[i])}

\* the k-th smallest element of S
Nth(S, k) == CHOOSE x \in S : Cardinality({y \in S : y < x}) = k - 1

\* C13: with an explicit list configured, whatever the day-count, the dates
\* resolved are the well-formed entries of the list, one date per entry, in
\* input order and with duplicates kept, each the midnight of its entry on the
\* host's clock; malformed entries are left out and a list without a
\* well-formed entry yields no date.
C13_ExplicitListInOrder ==
    (pc = "resolved" /\ CHECK_SPECIFIC_DAYS # None) =>
        /\ Len(dates_to_check) = Cardinality(WellFormedAt)
        /\ \A k \in 1..Len(dates_to_check) :
              LET e == CHECK_SPECIFIC_DAYS[Nth(WellFormedAt, k)]
                  local == dates_to_check[k] + tzoffset
              IN  /\ local % 86400 = 0
                  /\ civil_from_days(local \div 86400) = <<e.y, e.m, e.d>>

\* a list whose first entry is malformed, with a day-count configured as well
C13_Witness ==
    /\ pc = "resolved"
    /\ CHECK_SPECIFIC_DAYS = <<DayBad, DayB>>
    /\ CHECK_DAYS_AHEAD = <<"2">>
    /\ Len(dates_to_check) = 1

\* ---- C14 ----
\* C14: with no explicit list and a day-count N >= 1, the dates resolved are
\* N timestamps, the first today's UTC midnight, each 86400 seconds after the
\* one before.
C14_Consecutive ==
    /\ dates_to_check[1] % 86400 = 0
    /\ dates_to_check[1] <= Now /\ Now < dates_to_check[1] + 86400
    /\ \A i \in 1..(Len(dates_to_check) - 1) :
          /\ dates_to_check[i + 1] - dates_to_check[i] = 86400
          /\ dates_to_check[i] < dates_to_check[i + 1]

C14_DayCountDates ==
    (pc = "resolved" /\ CHECK_SPECIFIC_DAYS = None) =>
        /\ \A n \in 1..MaxDays :
              CHECK_DAYS_AHEAD \in CountTexts(n) => (Len(dates_to_check) = n /\ C14_Consecutive)
        /\ CHECK_DAYS_AHEAD = <<"1", "0">> => (Len(dates_to_check) = 10 /\ C14_Consecutive)

C14_Witness ==
    /\ pc = "resolved"
    /\ CHECK_SPECIFIC_DAYS = None
    /\ CHECK_DAYS_AHEAD = <<"+", "2">>
    /\ Len(dates_to_check) = 2

\* ---- the slot filter on its own ----
\* longest "available_slots" list the filter is applied to
MaxSlots == 2

\* times of day <<hour, minute, second>> of the slots: around both bounds of
\* the window 16:00-20:00, one second past the end included
TimePool == {<<15, 59, 0>>, <<16, 0, 0>>, <<18, 0, 0>>, <<20, 0, 0>>, <<20, 0, 1>>, <<20, 1, 0>>}

SlotAt(day, t) == day + t[1] * 3600 + t[2] * 60 + t[3]

\* slots on two days, with the values of is_available 0, 1 and another one
SlotPoolWide ==
    { [time |-> SlotAt(SlotDay, t), is_available |-> a] : t \in TimePool, a \in {0, 1, 2} }
    \cup { [time |-> SlotAt(SlotDay + DaySeconds, <<18, 0, 0>>), is_available |-> 1] }

\* windows: usual, the defaults, a single instant, and inverted ones
WindowsWide ==
    { <<s, e>> : s \in {<<16, 0>>, <<20, 0>>, <<8, 0>>}, e \in {<<20, 0>>, <<16, 0>>, <<22, 0>>} }

InitFilter ==
    /\ os_environ = <<"1">>
    /\ SCRAPING_ENABLED = (get_env(os_environ, <<"1">>) = <<"1">>)
    /\ CHECK_SPECIFIC_DAYS = None
    /\ CHECK_DAYS_AHEAD = None
    /\ tzoffset = 0
    /\ \E w \in WindowsWide :
          /\ TIME_INTERVAL_START = w[1]
          /\ TIME_INTERVAL_END = w[2]
    /\ CLIENT_SESSION = InitialSession
    /\ github_vars = [CLIENT_SESSION |-> InitialSession, SCRAPING_ENABLED |-> os_environ]
    /\ pc = "filter"
    /\ error = ""
    /\ dates_to_check = <<utc_midnight(Now)>>
    /\ idx = 1
    /\ all_slots = <<>>
    /\ slots = <<>>
    /\ message = NoMessage
    /\ headers = InitialSession
    /\ \E sl \in SeqsUpTo(SlotPoolWide, MaxSlots) : response = Resp(200, "", "dict", 1, sl)
    /\ first_response = response
    /\ log = <<>>

\* lines 241-249 applied to a parsed response
ApplyFilter ==
    /\ pc = "filter"
    /\ slots' = fetch_result(response, TIME_INTERVAL_START, TIME_INTERVAL_END)
    /\ pc' = "filtered"
    /\ UNCHANGED <<config, CLIENT_SESSION, github_vars, error, dates_to_check, idx, all_slots,
                   message, headers, response, first_response, log>>

NextFilter == ApplyFilter

SpecFilter == InitFilter /\ [][NextFilter]_vars

\* ---- C15 ----
\* one time of day is not after another, compared hour, minute, second
NotAfter(a, b) ==
    \/ a[1] < b[1]
    \/ a[1] = b[1] /\ a[2] < b[2]
    \/ a[1] = b[1] /\ a[2] = b[2] /\ a[3] <= b[3]

\* the slot lies in the window, bounds included, and is available
Qualifies(slot) ==
    /\ slot.is_available = 1
    /\ \E t \in TimePool, day \in {SlotDay, SlotDay + DaySeconds} :
          /\ slot.time = SlotAt(day, t)
          /\ NotAfter(<<TIME_INTERVAL_START[1], TIME_INTERVAL_START[2], 0>>, t)
          /\ NotAfter(t, <<TIME_INTERVAL_END[1], TIME_INTERVAL_END[2], 0>>)

QualifyingAt == {i \in 1..Len(response.available_slots) : Qualifies(response.available_slots[i])}

\* C15: the filter keeps exactly the slots whose UTC time of day t satisfies
\* start <= t <= end, both bounds included, and whose is_available is 1, in
\* the order received; an unavailable slot is dropped whatever its time and an
\* inverted window keeps nothing.
C15_FilterKeepsExactlyQualifying ==
    pc = "filtered" =>
        /\ Len(slots) = Cardinality(QualifyingAt)
        /\ \A k \in 1..Len(slots) : slots[k] = response.available_slots[Nth(QualifyingAt, k)]
        /\ \A k \in 1..Len(slots) : slots[k].is_available = 1
        /\ ~NotAfter(<<TIME_INTERVAL_START[1], TIME_INTERVAL_START[2], 0>>,
                     <<TIME_INTERVAL_END[1], TIME_INTERVAL_END[2], 0>>) => slots = <<>>

\* a slot at the end of the window and one at its start are both kept
C15_Witness ==
    /\ pc = "filtered"
    /\ TIME_INTERVAL_START = <<16, 0>> /\ TIME_INTERVAL_END = <<20, 0>>
    /\ Len(slots) = 2
    /\ slots[1].time = SlotAt(SlotDay, <<20, 0, 0>>)
    /\ slots[2].time = SlotAt(SlotDay, <<16, 0, 0>>)

\* ---- C16 ----
\* the date numbers whose fetch returned a non-empty list, and that list
ReturnedSlotsAt == {i \in 1..Len(dates_to_check) : \E k \in Events("return", i) : log[k].data # <<>>}

ReturnedSlots(i) == log[CHOOSE k \in Events("return", i) : TRUE].data

LabelOf(i) == date_label(dates_to_check[i])

WithLabel(key) == {i \in ReturnedSlotsAt : LabelOf(i) = key}

Min(S) == CHOOSE x \in S : \A y \in S : x <= y

\* a is b with some elements left out, the order kept
RECURSIVE IsSubsequence(_, _)
IsSubsequence(a, b) ==
    IF a = <<>> THEN TRUE
    ELSE IF b = <<>> THEN FALSE
    ELSE IF Head(a) = Head(b) THEN IsSubsequence(Tail(a), Tail(b))
    ELSE IsSubsequence(a, Tail(b))

\* C16: the aggregated result has an entry for a date label exactly when some
\* fetched date with that label returned a non-empty filtered list; its
\* entries are in the order in which their dates were first fetched, each
\* value is the list a fetch of that label returned (the latest one), in the
\* order of the API's response, and no entry is empty.
C16_AggregateMatchesFetches ==
    (SCRAPING_ENABLED /\ pc # "main") =>
        /\ \A p \in 1..Len(all_slots) : all_slots[p].slots # <<>>
        /\ \A p, q \in 1..Len(all_slots) : p # q => all_slots[p].date_str # all_slots[q].date_str
        /\ {all_slots[p].date_str : p \in 1..Len(all_slots)} = {LabelOf(i) : i \in ReturnedSlotsAt}
        /\ \A p \in 1..Len(all_slots) :
              all_slots[p].slots = ReturnedSlots(Max(WithLabel(all_slots[p].date_str)))
        /\ \A p, q \in 1..Len(all_slots) :
              p < q => Min(WithLabel(all_slots[p].date_str)) < Min(WithLabel(all_slots[q].date_str))
        /\ (FetchReturned /\ Parsable(response)) => IsSubsequence(slots, response.available_slots)

\* the loop ended after two dates of the same label returned different lists
C16_Witness ==
    /\ pc = "send"
    /\ Len(dates_to_check) = 2
    /\ ReturnedSlotsAt = {1, 2}
    /\ LabelOf(1) = LabelOf(2)
    /\ ReturnedSlots(1) # ReturnedSlots(2)
    /\ Len(all_slots) = 1

\* ---- C17 ----
\* C17 (as claimed): once the session was replaced by a login and the retried
\* query was issued, the repository variable CLIENT_SESSION already holds the
\* token in use, also when that retried query fails.
C17_PersistedBeforeRetry ==
    (CurDate >= 1 /\ Relogged(CurDate) /\ Count("query", CurDate) = 2)
        => github_vars.CLIENT_SESSION = CLIENT_SESSION

\* ---- C18 ----
\* C18: a login returns only with a token; when it fails (transport
\* exception, error status, unreadable body, or no token in the cookies and in
\* the Set-Cookie header) the fetch and the run end in the failure state, the
\* failed login being the last call made: no retried query, no write of
\* CLIENT_SESSION, and the session the run holds is the one it sent with the
\* date's query.
C18_FailedLoginIsFatal ==
    /\ \A k \in 1..Len(log) : (log[k].op = "login" /\ log[k].ok) => log[k].val # ""
    /\ CLIENT_SESSION # ""
    /\ (\E k \in 1..Len(log) : log[k].op = "login" /\ ~log[k].ok) =>
          /\ pc = "raised" /\ error = "login"
          /\ log[Len(log)].op = "login" /\ ~log[Len(log)].ok
          /\ log[Len(log)].val \in {"exception", "status", "json", "no_token"}
          /\ Count("query", idx) = 1
          /\ Count("set_CLIENT_SESSION", idx) = 0
          /\ Count("return", idx) = 0
          /\ CLIENT_SESSION = headers
          /\ CLIENT_SESSION = LastToken(Len(log))

\* the login answered 2xx without a token in the cookies or the header
C18_Witness ==
    /\ pc = "raised" /\ error = "login"
    /\ log[Len(log)].val = "no_token"

\* ---- C19 ----
\* the response is neither an auth failure nor one that lines 235-241 accept
\* (the response recorded for a query that raised is of that kind)
TransportError(r) ==
    /\ r.status \notin {401, 500}
    /\ r.text \notin {"auth_error", "Auth_Error"}
    /\ (r.status >= 400 \/ r.body # "dict")

\* C19: when the first response of a date is a transport error (the query
\* raised, an error status other than 401 and 500, or a 2xx body that is no
\* JSON object, none with "auth_error" in the body), the fetch makes no
\* login, no second query and no write, returns nothing and ends in error.
C19_TransportErrorNotRetried ==
    (CurDate >= 1 /\ TransportError(first_response)) =>
        /\ pc \in {"parse", "raised"}
        /\ pc = "raised" => error \in {"query", "status", "json", "data"}
        /\ Count("query", CurDate) = 1
        /\ Count("login", CurDate) = 0
        /\ Count("set_CLIENT_SESSION", CurDate) = 0
        /\ Count("return", CurDate) = 0
        /\ log[Len(log)].op = "query"

\* a first response with status 404 ended the fetch
C19_Witness ==
    /\ pc = "raised" /\ error = "status"
    /\ first_response.status = 404
    /\ TransportError(first_response)

\* ---- C20 ----
\* a first response that is a 2xx JSON object without auth error whose
\* success indicator is not 1 is about to be handled
C20_Case ==
    /\ pc = "parse"
    /\ response = first_response
    /\ Parsable(response)
    /\ response.success # 1

C20_NoLoginForSuccess ==
    (InFetch /\ first_response.status \notin {401, 500}
             /\ first_response.text \notin {"auth_error", "Auth_Error"}) =>
        (pc = "parse" /\ Count("login", idx) = 0 /\ Count("query", idx) = 1)

C20_Step ==
    C20_Case =>
        /\ slots' = <<>>
        /\ all_slots' = all_slots
        /\ error' = error
        /\ idx' = idx + 1
        /\ pc' = IF idx < Len(dates_to_check) THEN "get"
                 ELSE IF all_slots = <<>> THEN "returned" ELSE "send"
        /\ Len(log') = Len(log) + 1
        /\ log'[Len(log')].op = "return" /\ log'[Len(log')].val = "none"

\* C20: a response classified Success whose success indicator is not 1
\* triggers no login and makes the fetch return "no slots": the aggregated
\* result is unchanged, no error is raised, and the run goes on to the next
\* date (or, after the last date, to the end of the loop).
C20_NotSuccessMeansNoSlots == [](C20_NoLoginForSuccess) /\ [][C20_Step]_vars

\* date 1 answered success 0 with a slot in the body and date 2 is up next
C20_Witness ==
    /\ pc = "get" /\ idx = 2
    /\ first_response = Resp(200, "", "dict", 0, <<Slot17>>)
    /\ all_slots = <<>>
    /\ error = ""

====
